---- MODULE Spec2Model ----
(***************************************************************************)
(* Batch categorization pipeline of RiskalyzeAI:                           *)
(*   backend/openai_agent.py   call_openai_api, categorize_ticket_batch    *)
(*   scripts/run_categorization.py   get_pending_tickets,                  *)
(*       update_ticket_category, process_batch, main                       *)
(* Text is modelled as a sequence of one-character strings, so that        *)
(* stripping, prefix removal, case-sensitive equality and substring search *)
(* are computed the way Python computes them.                              *)
(***************************************************************************)
EXTENDS Integers, Sequences, FiniteSets, TLC

(***************************************************************************)
(* Text constants of the program                                           *)
(***************************************************************************)
NetworkSecurity ==
    \* "Network Security"
    <<"N","e","t","w","o","r","k"," ","S","e","c","u","r","i","t","y">>
PhishingAttack ==
    \* "Phishing Attack"
    <<"P","h","i","s","h","i","n","g"," ","A","t","t","a","c","k">>
MalwareInfection ==
    \* "Malware Infection"
    <<"M","a","l","w","a","r","e"," ","I","n","f","e","c","t","i","o","n">>
AccessControl ==
    \* "Access Control"
    <<"A","c","c","e","s","s"," ","C","o","n","t","r","o","l">>
PolicyViolation ==
    \* "Policy Violation"
    <<"P","o","l","i","c","y"," ","V","i","o","l","a","t","i","o","n">>
DataLeak ==
    \* "Data Leak"
    <<"D","a","t","a"," ","L","e","a","k">>
HardwareIssue ==
    \* "Hardware Issue"
    <<"H","a","r","d","w","a","r","e"," ","I","s","s","u","e">>
SoftwareIssue ==
    \* "Software Issue"
    <<"S","o","f","t","w","a","r","e"," ","I","s","s","u","e">>
Other ==
    \* "Other"
    <<"O","t","h","e","r">>

\* main(): the closed label set passed to every batch, in source order.
target_categories ==
    << NetworkSecurity, PhishingAttack, MalwareInfection,
       AccessControl, PolicyViolation, DataLeak,
       HardwareIssue, SoftwareIssue, Other >>

ErrorMarker ==
    \* "Error:"
    <<"E","r","r","o","r",":">>
ErrorCountMismatch ==
    \* "Error: Count Mismatch"
    <<"E","r","r","o","r",":"," ","C","o","u","n","t"," ","M","i","s","m","a","t","c","h">>
ErrorNotConfigured ==
    \* "Error: OpenAI Not Configured"
    <<"E","r","r","o","r",":"," ","O","p","e","n","A","I"," ","N","o","t"," ","C","o","n","f","i","g","u","r","e","d">>
Pending ==
    \* "Pending"
    <<"P","e","n","d","i","n","g">>
\* SQL NULL in the category column: a value that is no text.
NULL == <<"NULL">>
EmptyText == << >>

(***************************************************************************)
(* Python string primitives                                                *)
(***************************************************************************)
Whitespace == {" ", "\t", "\n", "\r"}
Digits == {"0","1","2","3","4","5","6","7","8","9"}
LineBreak == "\n"

\* str.strip(): the text between its first and its last character that is
\* no white space.
Strip(s) ==
    LET keep == {i \in 1..Len(s) : s[i] \notin Whitespace}
    IN  IF keep = {} THEN << >>
        ELSE SubSeq(s, CHOOSE i \in keep : \A j \in keep : i <= j,
                       CHOOSE i \in keep : \A j \in keep : j <= i)

\* needle == hay[i .. i+len-1]
MatchAt(hay, needle, i) ==
    /\ i + Len(needle) - 1 <= Len(hay)
    /\ \A k \in 1..Len(needle) : hay[i + k - 1] = needle[k]

\* `needle in hay` for two str values (case-sensitive substring test)
Contains(hay, needle) ==
    \E i \in 1..(Len(hay) - Len(needle) + 1) : MatchAt(hay, needle, i)

\* `x in list`
InList(x, list) == \E k \in 1..Len(list) : list[k] = x

\* str.splitlines(): the pieces between line breaks; a trailing line break
\* opens no further (empty) line, and the empty text has no line.
SplitLines(s) ==
    LET breaks == {i \in 1..Len(s) : s[i] = LineBreak}
        count == Cardinality(breaks)
                 + (IF Len(s) > 0 /\ s[Len(s)] # LineBreak THEN 1 ELSE 0)
        \* position of the j-th line break; 0 before the first, Len(s)+1 past the last
        BreakAt(j) == IF j = 0 THEN 0
                      ELSE IF j > Cardinality(breaks) THEN Len(s) + 1
                      ELSE CHOOSE p \in breaks : Cardinality({q \in breaks : q < p}) = j - 1
    IN  [j \in 1..count |-> SubSeq(s, BreakAt(j - 1) + 1, BreakAt(j) - 1)]

\* Number of leading characters of s, from position i on, that are in set.
RECURSIVE Span(_, _, _)
Span(s, i, set) ==
    IF i <= Len(s) /\ s[i] \in set THEN 1 + Span(s, i + 1, set) ELSE 0

\* re.sub(r"^\s*\d+\.?\s*[:\-]?\s*", "", s): the greedy match at position 0,
\* which exists only when a digit follows the leading white space.
RegexStripPrefix(s) ==
    LET a == 1 + Span(s, 1, Whitespace)
        d == Span(s, a, Digits)
        b == a + d
        c == IF b <= Len(s) /\ s[b] = "." THEN b + 1 ELSE b
        e == c + Span(s, c, Whitespace)
        f == IF e <= Len(s) /\ s[e] \in {":", "-"} THEN e + 1 ELSE e
        g == f + Span(s, f, Whitespace)
    IN  IF d = 0 THEN s ELSE SubSeq(s, g, Len(s))

\* sorted(categories, key=len) without reverse=True: shortest label first.
RECURSIVE SortByLenAsc(_)
SortByLenAsc(list) ==
    IF list = << >> THEN << >>
    ELSE LET rest == SortByLenAsc(Tail(list))
             shorter == SelectSeq(rest, LAMBDA c : Len(c) < Len(Head(list)))
             others == SelectSeq(rest, LAMBDA c : Len(c) >= Len(Head(list)))
         IN  shorter \o << Head(list) >> \o others

\* sorted(categories, key=len, reverse=True): stable, longest first.
RECURSIVE InsertByLen(_, _)
InsertByLen(sorted, x) ==
    IF sorted = << >> THEN << x >>
    ELSE IF Len(Head(sorted)) >= Len(x)
         THEN << Head(sorted) >> \o InsertByLen(Tail(sorted), x)
         ELSE << x >> \o sorted
RECURSIVE SortByLenDesc(_)
SortByLenDesc(list) ==
    IF list = << >> THEN << >>
    ELSE InsertByLen(SortByLenDesc(SubSeq(list, 1, Len(list) - 1)), list[Len(list)])
sorted_categories_for_matching(categories) == SortByLenDesc(categories)

(***************************************************************************)
(* Category normalizer: the body of the loop over the reconciled lines     *)
(***************************************************************************)
simple_cleaned_cat_text(llm_output_line) == Strip(RegexStripPrefix(llm_output_line))

\* First label of the list, in list order, contained in the text; << >> if none.
RECURSIVE FirstContained(_, _)
FirstContained(text, list) ==
    IF list = << >> THEN << >>
    ELSE IF Contains(text, Head(list)) THEN Head(list)
    ELSE FirstContained(text, Tail(list))

\* best_match_found with the exact-match branch assigning nothing.
best_match_found_unassigned(cleaned, categories) ==
    IF InList(cleaned, categories) THEN << >>
    ELSE FirstContained(cleaned, sorted_categories_for_matching(categories))

\* best_match_found; << >> stands for None (an empty label is falsy as well).
best_match_found(cleaned, categories) ==
    IF InList(cleaned, categories) THEN cleaned
    ELSE FirstContained(cleaned, sorted_categories_for_matching(categories))

\* NormalizeLine keeping the cleaned text where no label matches.
NormalizeLineKeepText(llm_output_line, categories) ==
    LET cleaned == Strip(RegexStripPrefix(llm_output_line))
        best == IF InList(cleaned, categories) THEN cleaned
                ELSE FirstContained(cleaned, SortByLenDesc(categories))
    IN  IF best # << >> THEN best ELSE cleaned

\* The label appended to final_categories for one reconciled line.
NormalizeLine(llm_output_line, categories) ==
    LET best == best_match_found(simple_cleaned_cat_text(llm_output_line), categories)
    IN  IF best # << >> THEN best ELSE Other

\* 1 when the line counts in mismatched_category_names_count.
MismatchedName(llm_output_line, categories) ==
    IF best_match_found(simple_cleaned_cat_text(llm_output_line), categories) = << >>
    THEN 1 ELSE 0

(***************************************************************************)
(* categorize_ticket_batch, given the content the endpoint returned        *)
(***************************************************************************)
RECURSIVE NonEmpty(_)
NonEmpty(lines) ==
    IF lines = << >> THEN << >>
    ELSE IF Head(lines) # << >> THEN << Head(lines) >> \o NonEmpty(Tail(lines))
    ELSE NonEmpty(Tail(lines))

\* parsed_lines: every line of the response, stripped.
parsed_lines(raw) == LET ls == SplitLines(raw) IN [j \in 1..Len(ls) |-> Strip(ls[j])]

\* assigned_categories_from_llm: the non-empty stripped lines.
assigned_categories_from_llm(raw) == NonEmpty(parsed_lines(raw))

\* call_openai_api on a successful completion: the stripped content.
raw_categories_response(content) == Strip(content)

\* categorize_ticket_batch labelling as many tickets as there are lines
\* instead of failing the batch on a count mismatch.
categorize_best_effort(num_tickets, content, categories) ==
    LET raw == Strip(content)
        assigned == NonEmpty(parsed_lines(raw))
    IN  IF Contains(raw, ErrorMarker) THEN [j \in 1..num_tickets |-> raw]
        ELSE [j \in 1..num_tickets |->
                IF j <= Len(assigned) THEN NormalizeLine(assigned[j], categories)
                ELSE Other]

\* categorize_ticket_batch without its test for "Error:" in the response.
categorize_ignoring_error_text(num_tickets, content, categories) ==
    LET raw == raw_categories_response(content)
        assigned == assigned_categories_from_llm(raw)
    IN  IF Len(assigned) # num_tickets
        THEN [j \in 1..num_tickets |-> ErrorCountMismatch]
        ELSE [j \in 1..num_tickets |-> NormalizeLine(assigned[j], categories)]

\* The list categorize_ticket_batch returns for num_tickets texts.
categorize_ticket_batch(num_tickets, content, categories) ==
    LET raw == raw_categories_response(content)
        assigned == assigned_categories_from_llm(raw)
    IN  IF Contains(raw, ErrorMarker) THEN [j \in 1..num_tickets |-> raw]
        ELSE IF Len(assigned) # num_tickets
             THEN [j \in 1..num_tickets |-> ErrorCountMismatch]
        ELSE [j \in 1..num_tickets |-> NormalizeLine(assigned[j], categories)]

\* categorize_ticket_batch answering the fallback label for every text when
\* the client is None.
categorize_unconfigured_as_other(num_tickets) == [j \in 1..num_tickets |-> Other]

\* The list returned when the client is not configured.
categorize_unconfigured(num_tickets) == [j \in 1..num_tickets |-> ErrorNotConfigured]

(***************************************************************************)
(* process_batch: None, or the id -> category pairs in batch order         *)
(***************************************************************************)
None == [ok |-> FALSE, items |-> << >>]

\* zip pairing the ids with the labels taken from the end.
ZipReversed(batch_ticket_ids, predicted_categories) ==
    LET len == Len(batch_ticket_ids)
    IN  [j \in 1..len |-> [id |-> batch_ticket_ids[j],
                           cat |-> predicted_categories[len + 1 - j]]]

\* zip(batch_ticket_ids, predicted_categories)
Zip(batch_ticket_ids, predicted_categories) ==
    LET len == IF Len(batch_ticket_ids) < Len(predicted_categories)
               THEN Len(batch_ticket_ids) ELSE Len(predicted_categories)
    IN  [j \in 1..len |-> [id |-> batch_ticket_ids[j], cat |-> predicted_categories[j]]]

\* process_batch without its test for error strings in the returned list.
process_batch_unchecked(batch_ticket_ids, predicted_categories) ==
    LET batch_size == Len(batch_ticket_ids)
    IN  IF predicted_categories = << >> \/ Len(predicted_categories) # batch_size
        THEN None
        ELSE [ok |-> TRUE, items |-> Zip(batch_ticket_ids, predicted_categories)]

process_batch(batch_ticket_ids, predicted_categories) ==
    LET batch_size == Len(batch_ticket_ids)
    IN  IF predicted_categories = << >> \/ Len(predicted_categories) # batch_size
        THEN None
        ELSE IF \E j \in 1..Len(predicted_categories) :
                    Contains(predicted_categories[j], ErrorMarker)
        THEN None
        ELSE [ok |-> TRUE, items |-> Zip(batch_ticket_ids, predicted_categories)]

\* dict.update: a known key keeps its place and takes the new value, a new
\* key is appended (a dict iterates in insertion order).
RECURSIVE DictUpdate(_, _)
DictUpdate(dict, items) ==
    IF items = << >> THEN dict
    ELSE LET it == Head(items)
             at == {j \in 1..Len(dict) : dict[j].id = it.id}
             d2 == IF at = {} THEN Append(dict, it)
                   ELSE [j \in 1..Len(dict) |-> IF j \in at THEN it ELSE dict[j]]
         IN  DictUpdate(d2, Tail(items))

(***************************************************************************)
(* Program constants and bounds of the model                               *)
(***************************************************************************)
\* main(): BATCH_SIZE
BATCH_SIZE == 10
\* @retry(stop=stop_after_attempt(3)) on call_openai_api and on
\* categorize_ticket_batch
stop_after_attempt == 3

\* Largest number of ticket rows in the store.
MaxTickets == 12
\* Most update_ticket_category failures the store produces in one run.
MaxUpdateFailures == 1
\* Responses rotate the test lines by 0..MaxShift positions.
MaxShift == 1

\* The categorization runs (processes executing main()).
Runs == {1, 2}

(***************************************************************************)
(* Model responses: the content returned by the completion endpoint        *)
(***************************************************************************)
TestLines ==
    << DataLeak,
       \* "2. Other"
       <<"2","."," ">> \o Other,
       \* "phishing attack"
       <<"p","h","i","s","h","i","n","g"," ","a","t","t","a","c","k">>,
       \* "Malware Infection found"
       MalwareInfection \o <<" ","f","o","u","n","d">> >>

\* The j-th label line of a response rotated by s.
Line(j, s) == TestLines[((j - 1 + s) % Len(TestLines)) + 1]

RECURSIVE Join(_, _)
Join(lines, sep) ==
    IF lines = << >> THEN << >>
    ELSE IF Len(lines) = 1 THEN lines[1]
    ELSE lines[1] \o sep \o Join(Tail(lines), sep)

\* A response is described by its style, its number m of label lines and its
\* rotation s:
\*   plain   the m lines separated by line breaks
\*   spaced  the same with indentation, trailing blanks and blank lines
\*   error   the m lines, the last one followed by a text containing "Error:"
ResponseText(d) ==
    CASE d.style = "plain" ->
            Join([j \in 1..d.m |-> Line(j, d.s)], << "\n" >>)
      [] d.style = "spaced" ->
            << "\n" >> \o
            Join([j \in 1..d.m |-> << " ", " " >> \o Line(j, d.s) \o << " ", "\t" >>],
                 << "\n", " ", "\n" >>) \o << "\n" >>
      [] d.style = "error" ->
            Join([j \in 1..d.m |-> Line(j, d.s)], << "\n" >>)
            \o << " ", "(" >> \o ErrorMarker \o << " ", "n", "o", "n", "e", ")" >>

\* The responses the endpoint may give for a batch of n tickets.
Responses(n) ==
    [style : {"plain"}, m : {0, n - 1, n, n + 1}, s : 0..MaxShift]
    \cup [style : {"spaced"}, m : {n, n + 1}, s : {0}]
    \cup [style : {"error"}, m : {n}, s : {0}]

(***************************************************************************)
(* State                                                                   *)
(***************************************************************************)
VARIABLES
    store,    \* tickets table: id -> category
    texts,    \* tickets table: id -> title and description
    engine,   \* backend.db.engine: "ok", or "none" (engine is None)
    client,   \* openai_agent.client: "ok", or "none" (client is None)
    run,      \* per run of main(): its locals and position
    norm      \* the normalizer applied to one line on its own

vars == << store, texts, engine, client, run, norm >>

IsPending(category) == category = Pending \/ category = NULL \/ category = EmptyText

IdleRun ==
    [ pc |-> "idle",
      pending_df |-> << >>,
      i |-> 0,
      all_results |-> << >>,
      processed_count_from_api |-> 0,
      failed_api_batches |-> 0,
      k |-> 0,
      db_update_success_count |-> 0,
      db_update_error_count |-> 0,
      mapped_to_other_count |-> 0,
      inner |-> 0,       \* failed attempts of the current call_openai_api call
      outer |-> 0,       \* failed attempts of the current categorize_ticket_batch call
      calls |-> 0,       \* endpoint calls made so far for the current batch
      sleeps |-> 0,      \* inter-batch delays taken
      outcome |-> << >>, \* per batch: what the model call gave
      writes |-> << >>,  \* update attempts, in order
      store0 |-> << >> ] \* the store when the run started

NormOff == [pc |-> "off", line |-> << >>, out |-> << >>, again |-> << >>]

\* Initial category of ticket t: pending in its three forms, and with
\* labeled set every fifth ticket carries a label already.
InitialCategory(t, labeled) ==
    IF labeled /\ t % 5 = 0 THEN SoftwareIssue
    ELSE IF t % 3 = 1 THEN Pending
    ELSE IF t % 3 = 2 THEN NULL
    ELSE EmptyText

\* Title and description of ticket t, as ingested.
InitialTexts(t) == [title |-> << "T", t >>, description |-> << "D", t >>]

TicketCounts == {0, 1, 2, MaxTickets - 1, MaxTickets}

Init ==
    /\ \E n \in TicketCounts, labeled \in BOOLEAN :
          store = [t \in 1..n |-> InitialCategory(t, labeled)]
    /\ texts = [t \in 1..Len(store) |-> InitialTexts(t)]
    /\ engine \in {"ok", "none"}
    /\ client \in {"ok", "none"}
    /\ run = [r \in Runs |-> IdleRun]
    /\ norm = NormOff

(***************************************************************************)
(* Store operations                                                        *)
(***************************************************************************)
RECURSIVE Reverse(_)
Reverse(seq) == IF seq = << >> THEN << >> ELSE Append(Reverse(Tail(seq)), Head(seq))

RECURSIVE SelectPending(_, _)
SelectPending(st, t) ==
    IF t > Len(st) THEN << >>
    ELSE IF IsPending(st[t]) THEN << t >> \o SelectPending(st, t + 1)
    ELSE SelectPending(st, t + 1)

FetchOrders == {"asc", "desc"}

\* get_pending_tickets without its WHERE clause: every row is fetched.
get_all_tickets(st, order) ==
    IF order = "asc" THEN [t \in 1..Len(st) |-> t]
    ELSE [t \in 1..Len(st) |-> Len(st) + 1 - t]

\* get_pending_tickets: the ids of the rows whose category is 'Pending', NULL
\* or ''. The query has no ORDER BY: the rows come in either id order.
get_pending_tickets(st, order) ==
    IF order = "asc" THEN SelectPending(st, 1) ELSE Reverse(SelectPending(st, 1))

\* update_ticket_category with an UPDATE that has lost its WHERE clause:
\* UPDATE tickets SET category = :category
update_ticket_category_every_row(st, ticket_id, new_category) ==
    [t \in 1..Len(st) |-> new_category]

\* update_ticket_category with an optimistic lock:
\* UPDATE ... WHERE id = :id AND (category = 'Pending' OR category IS NULL OR
\* category = '')
update_ticket_category_if_pending(st, ticket_id, new_category) ==
    IF IsPending(st[ticket_id]) THEN [st EXCEPT ![ticket_id] = new_category] ELSE st

\* update_ticket_category with an UPDATE that sets the pending marker in place
\* of new_category.
update_ticket_category_as_pending(st, ticket_id, new_category) ==
    [st EXCEPT ![ticket_id] = Pending]

\* update_ticket_category, the UPDATE having been executed and committed:
\* one row has the id, so rowcount = 1 and the function returns True.
update_ticket_category(st, ticket_id, new_category) ==
    [st EXCEPT ![ticket_id] = new_category]

\* The other columns of the table after the same UPDATE: the SET list names
\* category only, so title and description stay as they are.
update_ticket_texts(tx, ticket_id, new_category) == tx

(***************************************************************************)
(* main(): helpers                                                         *)
(***************************************************************************)
\* num_batches rounding down: num_tickets // BATCH_SIZE
num_batches_floor(rec) == Len(rec.pending_df) \div BATCH_SIZE

num_batches(rec) == (Len(rec.pending_df) + BATCH_SIZE - 1) \div BATCH_SIZE

\* batch_df = pending_df.iloc[start_index:end_index] (the ids of its rows)
batch_ticket_ids(rec) ==
    LET start_index == rec.i * BATCH_SIZE
        end_index == start_index + BATCH_SIZE
        stop == IF end_index < Len(rec.pending_df) THEN end_index ELSE Len(rec.pending_df)
    IN  SubSeq(rec.pending_df, start_index + 1, stop)

RECURSIVE SumMismatched(_, _)
SumMismatched(lines, categories) ==
    IF lines = << >> THEN 0
    ELSE MismatchedName(Head(lines), categories) + SumMismatched(Tail(lines), categories)

\* The count categorize_ticket_batch logs for a batch it finalizes.
mismatched_category_names_count(num_tickets, content, categories) ==
    LET raw == raw_categories_response(content)
        assigned == assigned_categories_from_llm(raw)
    IN  IF Contains(raw, ErrorMarker) \/ Len(assigned) # num_tickets THEN 0
        ELSE SumMismatched(assigned, categories)

\* CollectResult leaving the loop at the first failed batch.
CollectResultBreak(rec, batch_results, info) ==
    LET ok == batch_results.ok
        results == IF ok THEN DictUpdate(rec.all_results, batch_results.items)
                   ELSE rec.all_results
        more == ok /\ rec.i < num_batches(rec) - 1
    IN  [rec EXCEPT
            !.failed_api_batches = IF ok THEN @ ELSE @ + 1,
            !.all_results = results,
            !.processed_count_from_api = IF ok THEN @ + Len(batch_results.items) ELSE @,
            !.outcome = Append(@, info),
            !.inner = 0,
            !.outer = 0,
            !.calls = 0,
            !.pc = IF more THEN "sleep"
                   ELSE IF results = << >> THEN "noresults" ELSE "persist",
            !.k = IF ~more /\ results # << >> THEN 1 ELSE 0]

\* CollectResult counting a full batch for every successful batch.
CollectResultFullBatch(rec, batch_results, info) ==
    LET ok == batch_results.ok
        results == IF ok THEN DictUpdate(rec.all_results, batch_results.items)
                   ELSE rec.all_results
        more == rec.i < num_batches(rec) - 1
    IN  [rec EXCEPT
            !.failed_api_batches = IF ok THEN @ ELSE @ + 1,
            !.all_results = results,
            !.processed_count_from_api = IF ok THEN @ + BATCH_SIZE ELSE @,
            !.outcome = Append(@, info),
            !.inner = 0,
            !.outer = 0,
            !.calls = 0,
            !.pc = IF more THEN "sleep"
                   ELSE IF results = << >> THEN "noresults" ELSE "persist",
            !.k = IF ~more /\ results # << >> THEN 1 ELSE 0]

\* CollectResult going to the update loop after the first successful batch.
CollectResultPersistEarly(rec, batch_results, info) ==
    LET ok == batch_results.ok
        results == IF ok THEN DictUpdate(rec.all_results, batch_results.items)
                   ELSE rec.all_results
        more == ~ok /\ rec.i < num_batches(rec) - 1
    IN  [rec EXCEPT
            !.failed_api_batches = IF ok THEN @ ELSE @ + 1,
            !.all_results = results,
            !.processed_count_from_api = IF ok THEN @ + Len(batch_results.items) ELSE @,
            !.outcome = Append(@, info),
            !.inner = 0,
            !.outer = 0,
            !.calls = 0,
            !.pc = IF more THEN "sleep"
                   ELSE IF results = << >> THEN "noresults" ELSE "persist",
            !.k = IF ~more /\ results # << >> THEN 1 ELSE 0]

\* The loop body of main() after process_batch returned batch_results, up to
\* the next blocking point: the inter-batch delay, or the end of the loop with
\* its check of all_results.
CollectResult(rec, batch_results, info) ==
    LET ok == batch_results.ok
        results == IF ok THEN DictUpdate(rec.all_results, batch_results.items)
                   ELSE rec.all_results
        more == rec.i < num_batches(rec) - 1
    IN  [rec EXCEPT
            !.failed_api_batches = IF ok THEN @ ELSE @ + 1,
            !.all_results = results,
            !.processed_count_from_api = IF ok THEN @ + Len(batch_results.items) ELSE @,
            !.outcome = Append(@, info),
            !.inner = 0,
            !.outer = 0,
            !.calls = 0,
            !.pc = IF more THEN "sleep"
                   ELSE IF results = << >> THEN "noresults" ELSE "persist",
            !.k = IF ~more /\ results # << >> THEN 1 ELSE 0]

NoResponse == [style |-> "none", m |-> 0, s |-> 0]

(***************************************************************************)
(* Actions of a run r                                                      *)
(***************************************************************************)
\* Start without the test of engine: the fetch is made whatever the engine.
StartSkipEngineCheck(r, fetch_ok, order) ==
    /\ run[r].pc = "idle"
    /\ LET df == IF fetch_ok THEN get_pending_tickets(store, order) ELSE << >>
       IN  run' = [run EXCEPT ![r] =
                IF df = << >> THEN [@ EXCEPT !.pc = "nowork", !.store0 = store]
                ELSE [@ EXCEPT !.pc = "batch", !.pending_df = df, !.i = 0,
                               !.store0 = store]]
    /\ UNCHANGED << store, texts, engine, client, norm >>

\* Start without the test of pending_df.empty: the loop is entered whatever
\* the fetch gave.
StartSkipEmptyCheck(r, fetch_ok, order) ==
    /\ run[r].pc = "idle"
    /\ LET df == IF fetch_ok THEN get_pending_tickets(store, order) ELSE << >>
       IN  run' = [run EXCEPT ![r] =
                IF engine = "none" THEN [@ EXCEPT !.pc = "aborted", !.store0 = store]
                ELSE [@ EXCEPT !.pc = "batch", !.pending_df = df, !.i = 0,
                               !.store0 = store]]
    /\ UNCHANGED << store, texts, engine, client, norm >>

\* main() up to the first batch: the engine check, the fetch (which gives an
\* empty frame when the query raises) and the batching.
Start(r, fetch_ok, order) ==
    /\ run[r].pc = "idle"
    /\ LET df == IF fetch_ok THEN get_pending_tickets(store, order) ELSE << >>
       IN  run' = [run EXCEPT ![r] =
                IF engine = "none" THEN [@ EXCEPT !.pc = "aborted", !.store0 = store]
                ELSE IF df = << >> THEN [@ EXCEPT !.pc = "nowork", !.store0 = store]
                ELSE [@ EXCEPT !.pc = "batch", !.pending_df = df, !.i = 0,
                               !.store0 = store]]
    /\ UNCHANGED << store, texts, engine, client, norm >>

\* process_batch when the client is None: categorize_ticket_batch returns the
\* error list without calling the endpoint.
BatchUnconfigured(r) ==
    /\ run[r].pc = "batch"
    /\ client = "none"
    /\ LET ids == batch_ticket_ids(run[r])
           predicted == categorize_unconfigured(Len(ids))
           info == [kind |-> "unconfigured", resp |-> NoResponse,
                    ok |-> process_batch(ids, predicted).ok, mismatched |-> 0]
       IN  run' = [run EXCEPT ![r] = CollectResult(@, process_batch(ids, predicted), info)]
    /\ UNCHANGED << store, texts, engine, client, norm >>

\* One endpoint call that raises. call_openai_api re-raises and is retried
\* until its third attempt; then the retry error leaves it,
\* categorize_ticket_batch re-raises and is itself retried until its third
\* attempt; then the error leaves process_batch and main(), which catch
\* nothing.
AttemptFails(r) ==
    /\ run[r].pc = "batch"
    /\ client = "ok"
    /\ run' = [run EXCEPT ![r] =
            IF @.inner + 1 < stop_after_attempt
            THEN [@ EXCEPT !.calls = @ + 1, !.inner = @ + 1]
            ELSE IF @.outer + 1 < stop_after_attempt
            THEN [@ EXCEPT !.calls = @ + 1, !.inner = 0, !.outer = @ + 1]
            ELSE [@ EXCEPT !.calls = @ + 1, !.pc = "crashed",
                           !.outcome = Append(@, [kind |-> "raised", resp |-> NoResponse,
                                                  ok |-> FALSE, mismatched |-> 0])]]
    /\ UNCHANGED << store, texts, engine, client, norm >>

\* AttemptReturns with a response of the wrong number of lines sent again,
\* until the third call for the batch.
AttemptReturnsRetryMismatch(r, d) ==
    /\ run[r].pc = "batch"
    /\ client = "ok"
    /\ LET ids == batch_ticket_ids(run[r])
           content == ResponseText(d)
           predicted == categorize_ticket_batch(Len(ids), content, target_categories)
           batch_results == process_batch(ids, predicted)
           mismatch == Len(assigned_categories_from_llm(raw_categories_response(content)))
                           # Len(ids)
           info == [kind |-> "returned", resp |-> d, ok |-> batch_results.ok,
                    mismatched |->
                        mismatched_category_names_count(Len(ids), content, target_categories)]
       IN  run' = [run EXCEPT ![r] =
                IF mismatch /\ @.calls + 1 < stop_after_attempt
                THEN [@ EXCEPT !.calls = @ + 1]
                ELSE CollectResult([@ EXCEPT !.calls = @ + 1], batch_results, info)]
    /\ UNCHANGED << store, texts, engine, client, norm >>

\* One endpoint call that returns the content described by d: the rest of
\* categorize_ticket_batch, process_batch and the loop body of main().
AttemptReturns(r, d) ==
    /\ run[r].pc = "batch"
    /\ client = "ok"
    /\ LET ids == batch_ticket_ids(run[r])
           content == ResponseText(d)
           predicted == categorize_ticket_batch(Len(ids), content, target_categories)
           batch_results == process_batch(ids, predicted)
           info == [kind |-> "returned", resp |-> d, ok |-> batch_results.ok,
                    mismatched |->
                        mismatched_category_names_count(Len(ids), content, target_categories)]
       IN  run' = [run EXCEPT ![r] =
                CollectResult([@ EXCEPT !.calls = @ + 1], batch_results, info)]
    /\ UNCHANGED << store, texts, engine, client, norm >>

\* Sleep without the call of time.sleep: the next iteration starts at once.
SleepNoDelay(r) ==
    /\ run[r].pc = "sleep"
    /\ run' = [run EXCEPT ![r] = [@ EXCEPT !.pc = "batch", !.i = @ + 1]]
    /\ UNCHANGED << store, texts, engine, client, norm >>

\* time.sleep(DELAY_BETWEEN_BATCHES), then the next iteration.
Sleep(r) ==
    /\ run[r].pc = "sleep"
    /\ run' = [run EXCEPT ![r] = [@ EXCEPT !.pc = "batch", !.i = @ + 1, !.sleeps = @ + 1]]
    /\ UNCHANGED << store, texts, engine, client, norm >>

\* final_category of the k-th item of all_results
final_category(predicted_category) ==
    IF InList(predicted_category, target_categories) THEN predicted_category ELSE Other

\* UpdateTicket leaving the update loop at the first update that fails.
UpdateTicketStopOnFailure(r, db_ok) ==
    /\ run[r].pc = "persist"
    /\ db_ok \/ run[r].db_update_error_count < MaxUpdateFailures
    /\ LET item == run[r].all_results[run[r].k]
           cat == final_category(item.cat)
       IN  /\ store' = IF db_ok THEN update_ticket_category(store, item.id, cat) ELSE store
           /\ texts' = IF db_ok THEN update_ticket_texts(texts, item.id, cat) ELSE texts
           /\ run' = [run EXCEPT ![r] =
                [@ EXCEPT
                    !.mapped_to_other_count =
                        IF InList(item.cat, target_categories) THEN @ ELSE @ + 1,
                    !.db_update_success_count = IF db_ok THEN @ + 1 ELSE @,
                    !.db_update_error_count = IF db_ok THEN @ ELSE @ + 1,
                    !.writes = Append(@, [id |-> item.id, cat |-> cat, ok |-> db_ok]),
                    !.k = @ + 1,
                    !.pc = IF run[r].k = Len(run[r].all_results) \/ ~db_ok
                           THEN "done" ELSE "persist"]]
    /\ UNCHANGED << engine, client, norm >>

\* One iteration of the update loop; db_ok tells whether the UPDATE went
\* through or raised (update_ticket_category then returns False).
\* After the last item the summary is logged.
UpdateTicket(r, db_ok) ==
    /\ run[r].pc = "persist"
    /\ db_ok \/ run[r].db_update_error_count < MaxUpdateFailures
    /\ LET item == run[r].all_results[run[r].k]
           cat == final_category(item.cat)
       IN  /\ store' = IF db_ok THEN update_ticket_category(store, item.id, cat) ELSE store
           /\ texts' = IF db_ok THEN update_ticket_texts(texts, item.id, cat) ELSE texts
           /\ run' = [run EXCEPT ![r] =
                [@ EXCEPT
                    !.mapped_to_other_count =
                        IF InList(item.cat, target_categories) THEN @ ELSE @ + 1,
                    !.db_update_success_count = IF db_ok THEN @ + 1 ELSE @,
                    !.db_update_error_count = IF db_ok THEN @ ELSE @ + 1,
                    !.writes = Append(@, [id |-> item.id, cat |-> cat, ok |-> db_ok]),
                    !.k = @ + 1,
                    !.pc = IF run[r].k = Len(run[r].all_results) THEN "done" ELSE "persist"]]
    /\ UNCHANGED << engine, client, norm >>

Terminal(r) == run[r].pc \in {"aborted", "nowork", "noresults", "crashed", "done"}

(***************************************************************************)
(* One run, any response, any failure                                      *)
(***************************************************************************)
StartRun == \E order \in FetchOrders, fetch_ok \in BOOLEAN : Start(1, fetch_ok, order)
Unconfigured == BatchUnconfigured(1)
CallRaises == AttemptFails(1)
CallReturns == \E d \in Responses(Len(batch_ticket_ids(run[1]))) : AttemptReturns(1, d)
Delay == Sleep(1)
Persist == \E db_ok \in BOOLEAN : UpdateTicket(1, db_ok)

Next ==
    \/ StartRun
    \/ Unconfigured
    \/ CallRaises
    \/ CallReturns
    \/ Delay
    \/ Persist

Spec == Init /\ [][Next]_vars

(***************************************************************************)
(* The normalizer on its own: one reconciled line, normalized, and its     *)
(* label normalized again, with the label set of main()                    *)
(***************************************************************************)
Prefixes ==
    { << >>,
      <<"2","."," ">>,
      <<"1",":"," ">>,
      <<"1","0"," ","-"," ">>,
      <<"3",".">>,
      <<"1","."," ","2","."," ">> }

Bodies ==
    { target_categories[c] : c \in 1..Len(target_categories) }
    \cup { << >>,
           \* "phishing attack"
           <<"p","h","i","s","h","i","n","g"," ","a","t","t","a","c","k">>,
           \* "Unknown"
           <<"U","n","k","n","o","w","n">>,
           \* "Other Software Issue"
           Other \o << " " >> \o SoftwareIssue,
           \* "Another Data Leak"
           <<"A","n","o","t","h","e","r"," ">> \o DataLeak,
           \* "Phishing Attack or Malware Infection"
           PhishingAttack \o <<" ","o","r"," ">> \o MalwareInfection,
           Pending }

Suffixes ==
    { << >>,
      \* " extra text"
      <<" ","e","x","t","r","a"," ","t","e","x","t">>,
      <<"!">> }

\* Reconciled lines: stripped and not empty.
NormLines ==
    { l \in { p \o b \o x : p \in Prefixes, b \in Bodies, x \in Suffixes } :
        l # << >> /\ Strip(l) = l }

InitNorm ==
    /\ store = [t \in 1..1 |-> Pending]
    /\ texts = [t \in 1..Len(store) |-> InitialTexts(t)]
    /\ engine = "ok"
    /\ client = "ok"
    /\ run = [r \in Runs |-> IdleRun]
    /\ \E l \in NormLines : norm = [pc |-> "line", line |-> l, out |-> << >>, again |-> << >>]

NormalizeOnce ==
    /\ norm.pc = "line"
    /\ norm' = [norm EXCEPT !.pc = "once", !.out = NormalizeLine(norm.line, target_categories)]
    /\ UNCHANGED << store, texts, engine, client, run >>

NormalizeAgain ==
    /\ norm.pc = "once"
    /\ norm' = [norm EXCEPT !.pc = "twice", !.again = NormalizeLine(norm.out, target_categories)]
    /\ UNCHANGED << store, texts, engine, client, run >>

NextNorm == NormalizeOnce \/ NormalizeAgain

SpecNorm == InitNorm /\ [][NextNorm]_vars

(***************************************************************************)
(* Properties of the normalizer (SpecNorm)                                 *)
(***************************************************************************)
\* C6: the label produced for a reconciled line is a member of the closed
\* label set; no other text leaves the normalizer.
C6_NormalizerTotal ==
    norm.pc \in {"once", "twice"} => InList(norm.out, target_categories)

\* A line matching no label has been normalized to "Other".
C6_Witness ==
    /\ norm.pc = "once"
    /\ norm.line = <<"U","n","k","n","o","w","n">>
    /\ norm.out = Other

\* C7: normalizing the label produced for a line gives that label again.
C7_NormalizerIdempotent ==
    norm.pc = "twice" => norm.again = norm.out

\* A doubly numbered line with no label in it, normalized twice.
C7_Witness ==
    /\ norm.pc = "twice"
    /\ norm.line = <<"1","."," ","2","."," ","U","n","k","n","o","w","n">>
    /\ norm.again = norm.out

\* C8: when the cleaned line equals a label, the result is that label; a
\* cleaned line equal to "Other" gives "Other".
C8_ExactMatchFirst ==
    norm.pc \in {"once", "twice"} =>
        LET cleaned == Strip(RegexStripPrefix(norm.line))
        IN  /\ InList(cleaned, target_categories) => norm.out = cleaned
            /\ cleaned = Other => norm.out = Other

\* The line "2. Other" has been cleaned to the label "Other" and kept it.
C8_Witness ==
    /\ norm.pc = "once"
    /\ norm.line = <<"2","."," ">> \o Other
    /\ norm.out = Other

ScenarioLine ==
    \* "2. phishing attack extra text"
    <<"2","."," ","p","h","i","s","h","i","n","g"," ","a","t","t","a","c","k",
      " ","e","x","t","r","a"," ","t","e","x","t">>

\* C9: the line "2. phishing attack extra text" normalizes to the label
\* "Phishing Attack".
C9_ScenarioLine ==
    (norm.pc \in {"once", "twice"} /\ norm.line = ScenarioLine) => norm.out = PhishingAttack

(***************************************************************************)
(* Properties of one run (Spec)                                            *)
(***************************************************************************)
\* The ids of the b-th batch of a run.
BatchOf(rec, b) == batch_ticket_ids([rec EXCEPT !.i = b - 1])

\* The positions of all_results holding ticket id.
ResultsFor(rec, id) == {x \in 1..Len(rec.all_results) : rec.all_results[x].id = id}

\* The b-th batch of run r got a response whose number of label lines differs
\* from the number of its tickets.
CountMismatch(r, b) ==
    /\ run[r].outcome[b].kind = "returned"
    /\ run[r].outcome[b].resp.m # Len(BatchOf(run[r], b))

\* The b-th batch of run r got a response with one label line per ticket and
\* no error text.
WellFormed(r, b) ==
    /\ run[r].outcome[b].kind = "returned"
    /\ run[r].outcome[b].resp.style \in {"plain", "spaced"}
    /\ run[r].outcome[b].resp.m = Len(BatchOf(run[r], b))

\* C1: a batch whose response has a number of non-empty lines other than its
\* number of tickets (the empty response included) fails, gives no category
\* to any of its tickets, and its tickets keep the category they had when
\* the run started.
C1_MismatchAssignsNothing ==
    \A b \in 1..Len(run[1].outcome) :
        CountMismatch(1, b) =>
            /\ ~run[1].outcome[b].ok
            /\ \A j \in 1..Len(BatchOf(run[1], b)) :
                  LET id == BatchOf(run[1], b)[j]
                  IN  /\ ResultsFor(run[1], id) = {}
                      /\ store[id] = run[1].store0[id]
                      /\ \A w \in 1..Len(run[1].writes) : run[1].writes[w].id # id

\* A finished run whose first batch got the empty response and whose second
\* batch was labeled.
C1_Witness ==
    /\ run[1].pc = "done"
    /\ Len(run[1].outcome) = 2
    /\ run[1].outcome[1].kind = "returned"
    /\ run[1].outcome[1].resp.m = 0
    /\ run[1].outcome[2].ok
    /\ run[1].db_update_success_count > 0

\* The labels of the test lines, and the label of the j-th line of a response
\* rotated by s.
NormalizedTestLines ==
    [x \in 1..Len(TestLines) |-> NormalizeLine(TestLines[x], target_categories)]

LabelOfLine(j, s) == NormalizedTestLines[((j - 1 + s) % Len(TestLines)) + 1]

\* C2: in a batch whose response has one non-empty line per ticket, the
\* ticket at position j gets the normalization of the j-th line: in the
\* results, in every update issued for it and in the store.
C2_PositionalCorrespondence ==
    \A b \in 1..Len(run[1].outcome) :
        WellFormed(1, b) =>
            \A j \in 1..Len(BatchOf(run[1], b)) :
                LET id == BatchOf(run[1], b)[j]
                    label == LabelOfLine(j, run[1].outcome[b].resp.s)
                IN  /\ ResultsFor(run[1], id) # {}
                    /\ \A x \in ResultsFor(run[1], id) : run[1].all_results[x].cat = label
                    /\ \A w \in 1..Len(run[1].writes) :
                          run[1].writes[w].id = id => run[1].writes[w].cat = label
                    /\ store[id] \in {run[1].store0[id], label}

\* A finished run over two pending tickets fetched in descending order, with
\* an indented response, whose two tickets hold two different labels.
C2_Witness ==
    /\ run[1].pc = "done"
    /\ run[1].pending_df = << 2, 1 >>
    /\ run[1].outcome[1].resp.style = "spaced"
    /\ store[2] = DataLeak
    /\ store[1] = Other

\* The batches of run r that failed without ending the process.
FailedBatches(r) ==
    {b \in 1..Len(run[r].outcome) :
        ~run[r].outcome[b].ok /\ run[r].outcome[b].kind # "raised"}

\* C3: a count mismatch does not abort the run. Each one adds one to the
\* failed-batch counter, only a raised error stops the loop, the loop ends
\* with every batch sent to the model, and a run that reaches its summary has
\* issued an update for every result of its successful batches.
C3_MismatchDoesNotAbort ==
    /\ run[1].failed_api_batches = Cardinality(FailedBatches(1))
    /\ \A b \in 1..Len(run[1].outcome) :
          CountMismatch(1, b) =>
              /\ b \in FailedBatches(1)
              /\ b < num_batches(run[1]) =>
                    \/ run[1].pc = "sleep" /\ run[1].i = b - 1
                    \/ run[1].i >= b
    /\ run[1].pc = "crashed" => run[1].outcome[Len(run[1].outcome)].kind = "raised"
    /\ run[1].pc \in {"persist", "noresults", "done"} =>
          Len(run[1].outcome) = num_batches(run[1])
    /\ run[1].pc = "done" =>
          \A b \in 1..Len(run[1].outcome) :
              run[1].outcome[b].ok =>
                  \A j \in 1..Len(BatchOf(run[1], b)) :
                      \E w \in 1..Len(run[1].writes) :
                          /\ run[1].writes[w].id = BatchOf(run[1], b)[j]
                          /\ run[1].writes[w].ok =>
                                store[BatchOf(run[1], b)[j]] = run[1].writes[w].cat

\* A finished run whose first batch failed on a count mismatch and whose
\* second batch was labeled and written.
C3_Witness ==
    /\ run[1].pc = "done"
    /\ Len(run[1].outcome) = 2
    /\ CountMismatch(1, 1)
    /\ run[1].outcome[1].resp.m > 0
    /\ run[1].failed_api_batches = 1
    /\ run[1].outcome[2].ok
    /\ run[1].db_update_success_count = Len(BatchOf(run[1], 2))

\* C4: a model call that fails until the retries are exhausted does not abort
\* the run: the batch is counted as failed and the run goes on to the next
\* batch or to the updates.
C4_CallFailureDoesNotAbort ==
    \A b \in 1..Len(run[1].outcome) :
        run[1].outcome[b].kind = "raised" =>
            /\ run[1].pc # "crashed"
            /\ run[1].failed_api_batches >= 1

(***************************************************************************)
(* Two runs, one after the other (SpecRerun)                               *)
(***************************************************************************)
InitRerun ==
    /\ \E n \in {2, MaxTickets - 1}, labeled \in BOOLEAN :
          store = [t \in 1..n |-> InitialCategory(t, labeled)]
    /\ texts = [t \in 1..Len(store) |-> InitialTexts(t)]
    /\ engine = "ok"
    /\ client = "ok"
    /\ run = [r \in Runs |-> IdleRun]
    /\ norm = NormOff

\* The responses of the rerun scenario: well formed, or carrying an error text.
RerunResponses(n) == [style : {"plain", "error"}, m : {n}, s : {0}]

\* A run starts when the runs before it have ended.
RerunStart ==
    \E r \in Runs, order \in FetchOrders :
        /\ \A q \in Runs : q < r => Terminal(q)
        /\ Start(r, TRUE, order)
RerunCallRaises == \E r \in Runs : AttemptFails(r)
RerunCallReturns ==
    \E r \in Runs :
        \E d \in RerunResponses(Len(batch_ticket_ids(run[r]))) : AttemptReturns(r, d)
RerunDelay == \E r \in Runs : Sleep(r)
RerunPersist == \E r \in Runs, db_ok \in BOOLEAN : UpdateTicket(r, db_ok)

NextRerun ==
    \/ RerunStart
    \/ RerunCallRaises
    \/ RerunCallReturns
    \/ RerunDelay
    \/ RerunPersist

SpecRerun == InitRerun /\ [][NextRerun]_vars

\* Run r had a model call failure: a call that raised until the retries were
\* exhausted, or a response read as an error.
CallFailed(r) ==
    \E b \in 1..Len(run[r].outcome) :
        \/ run[r].outcome[b].kind = "raised"
        \/ run[r].outcome[b].kind = "returned" /\ run[r].outcome[b].resp.style = "error"

\* C5: after a first run that had a model call failure, the second run
\* fetches exactly the tickets still pending, issues updates only for those,
\* leaves every ticket that was labeled when it started as it was, and labels
\* every remaining ticket when none of its batches and updates fails.
C5_RerunPicksUpRemaining ==
    (Terminal(1) /\ CallFailed(1) /\ run[2].pc # "idle") =>
        LET s0 == run[2].store0
        IN  /\ {run[2].pending_df[x] : x \in 1..Len(run[2].pending_df)}
                  = {t \in 1..Len(s0) : IsPending(s0[t])}
            /\ Len(run[2].pending_df) = Cardinality({t \in 1..Len(s0) : IsPending(s0[t])})
            /\ \A w \in 1..Len(run[2].writes) : IsPending(s0[run[2].writes[w].id])
            /\ \A t \in 1..Len(s0) : ~IsPending(s0[t]) => store[t] = s0[t]
            /\ (run[2].pc = "done" /\ run[2].failed_api_batches = 0
                  /\ run[2].db_update_error_count = 0) =>
                  \A t \in 1..Len(store) : ~IsPending(store[t])

\* The first run labeled its first batch and lost its second to an error
\* response; the second run fetched the one ticket left and labeled it.
C5_Witness ==
    /\ run[1].pc = "done"
    /\ CallFailed(1)
    /\ run[1].db_update_success_count = BATCH_SIZE
    /\ run[2].pc = "done"
    /\ Len(run[2].pending_df) = 1
    /\ \A t \in 1..Len(store) : ~IsPending(store[t])

(***************************************************************************)
(* The scenario of 23 pending tickets (SpecScenario)                       *)
(***************************************************************************)
InitScenario ==
    /\ store = [t \in 1..23 |-> InitialCategory(t, FALSE)]
    /\ texts = [t \in 1..Len(store) |-> InitialTexts(t)]
    /\ engine = "ok"
    /\ client = "ok"
    /\ run = [r \in Runs |-> IdleRun]
    /\ norm = NormOff

\* The second batch gets one line too few, the other batches one line per
\* ticket.
ScenarioResponses(rec) ==
    LET n == Len(batch_ticket_ids(rec))
    IN  [style : {"plain", "spaced"}, m : {IF rec.i = 1 THEN n - 1 ELSE n}, s : 0..MaxShift]

ScenarioStart == \E order \in FetchOrders : Start(1, TRUE, order)
ScenarioCallReturns == \E d \in ScenarioResponses(run[1]) : AttemptReturns(1, d)
ScenarioDelay == Sleep(1)
ScenarioPersist == UpdateTicket(1, TRUE)

NextScenario ==
    \/ ScenarioStart
    \/ ScenarioCallReturns
    \/ ScenarioDelay
    \/ ScenarioPersist

SpecScenario == InitScenario /\ [][NextScenario]_vars

\* The sizes of the batches a run has formed.
BatchSizes(rec) == [b \in 1..num_batches(rec) |-> Len(BatchOf(rec, b))]

StillPending == {t \in 1..Len(store) : IsPending(store[t])}

\* C10 as stated: the run forms batches of 10, 10 and 3 and, batch 2 having
\* got 9 lines, reports 20 tickets categorized, 3 still pending and 1 failed
\* batch.
C10_ScenarioReport ==
    run[1].pc = "done" =>
        /\ BatchSizes(run[1]) = << 10, 10, 3 >>
        /\ run[1].outcome[2].resp.m = 9
        /\ run[1].processed_count_from_api = 20
        /\ Cardinality(StillPending) = 3
        /\ run[1].failed_api_batches = 1

\* C10 amended: the run forms batches of 10, 10 and 3 and, batch 2 having got
\* 9 lines, reports 13 tickets categorized and written, 10 still pending and
\* 1 failed batch.
C10_ScenarioReportAmended ==
    run[1].pc = "done" =>
        /\ BatchSizes(run[1]) = << 10, 10, 3 >>
        /\ run[1].outcome[2].resp.m = 9
        /\ run[1].processed_count_from_api = 13
        /\ run[1].db_update_success_count = 13
        /\ Cardinality(StillPending) = 10
        /\ StillPending = {BatchOf(run[1], 2)[j] : j \in 1..10}
        /\ run[1].failed_api_batches = 1

\* The run of the scenario has logged its summary.
C10_Witness ==
    /\ run[1].pc = "done"
    /\ Len(run[1].pending_df) = 23
    /\ Len(run[1].outcome) = 3
    /\ ~run[1].outcome[2].ok
    /\ run[1].failed_api_batches = 1

(***************************************************************************)
(* Runs that do nothing: empty fetch, no engine                            *)
(***************************************************************************)
\* C11: when the fetch gives no ticket (nothing pending, or the query
\* raised and the empty frame was returned), the run ends at once: zero
\* batches, no endpoint call, no delay, no update attempt, store untouched.
C11_EmptyFetchIsNoOp ==
    (run[1].pc # "idle" /\ engine = "ok" /\ run[1].pending_df = << >>) =>
        /\ run[1].pc = "nowork"
        /\ num_batches(run[1]) = 0
        /\ run[1].calls = 0
        /\ run[1].outcome = << >>
        /\ run[1].sleeps = 0
        /\ run[1].all_results = << >>
        /\ run[1].writes = << >>
        /\ store = run[1].store0
        /\ ~ ENABLED Next

\* A run that found nothing pending, in a store that holds tickets or not.
C11_Witness ==
    /\ run[1].pc = "nowork"
    /\ engine = "ok"
    /\ get_pending_tickets(store, "asc") = << >>

(***************************************************************************)
(* Retries of the endpoint call                                            *)
(***************************************************************************)
\* C12: for one batch the endpoint is attempted at most 3 times; after 3
\* failed attempts no further call is made for the batch, which is counted
\* as a failed batch.
C12_AtMostThreeAttempts ==
    /\ run[1].calls <= stop_after_attempt
    /\ (run[1].pc = "batch" /\ run[1].calls = stop_after_attempt) => ~ ENABLED CallRaises

\* C13: with the client not configured, a batch makes no endpoint call and
\* no retry; it fails at once, it is counted as failed, and none of its
\* tickets gets a result, an update attempt or a category.
C13_UnconfiguredBatchFails ==
    client = "none" =>
        /\ run[1].calls = 0
        /\ run[1].inner = 0
        /\ run[1].outer = 0
        /\ ~ ENABLED CallRaises
        /\ ~ ENABLED CallReturns
        /\ \A b \in 1..Len(run[1].outcome) :
              /\ run[1].outcome[b].kind = "unconfigured"
              /\ ~ run[1].outcome[b].ok
        /\ run[1].failed_api_batches = Len(run[1].outcome)
        /\ run[1].processed_count_from_api = 0
        /\ run[1].all_results = << >>
        /\ run[1].writes = << >>
        /\ store = run[1].store0 \/ run[1].pc = "idle"

\* Two batches were handed to the unconfigured client.
C13_Witness ==
    /\ client = "none"
    /\ Len(run[1].outcome) = 2
    /\ run[1].outcome[1].kind = "unconfigured"
    /\ Len(run[1].pending_df) > BATCH_SIZE

\* C14: with no database engine the run is aborted at its start: nothing is
\* fetched, no batch is formed, no endpoint call and no update attempt is
\* made, the store is untouched and the run takes no further step.
C14_NoEngineAborts ==
    engine = "none" =>
        /\ run[1].pc \in {"idle", "aborted"}
        /\ run[1].pending_df = << >>
        /\ run[1].calls = 0
        /\ run[1].outcome = << >>
        /\ run[1].sleeps = 0
        /\ run[1].all_results = << >>
        /\ run[1].writes = << >>
        /\ run[1].pc = "aborted" => (store = run[1].store0 /\ ~ ENABLED Next)

\* A run aborted for want of an engine, over a store with pending tickets.
C14_Witness ==
    /\ engine = "none"
    /\ run[1].pc = "aborted"
    /\ get_pending_tickets(store, "asc") # << >>

\* C15: with the client not configured the run stops at once: no batch is
\* handed to the categorizer and no inter-batch delay is taken.
C15_MissingCredentialIsFatal ==
    client = "none" =>
        /\ run[1].outcome = << >>
        /\ run[1].sleeps = 0
        /\ run[1].pc # "sleep"

(***************************************************************************)
(* The update loop                                                         *)
(***************************************************************************)
\* The tickets of the batches of run r whose categorization succeeded.
ResolvedTickets(r) ==
    UNION {{BatchOf(run[r], b)[j] : j \in 1..Len(BatchOf(run[r], b))} :
              b \in {c \in 1..Len(run[r].outcome) : run[r].outcome[c].ok}}

\* The update attempts run r made for ticket id.
WritesFor(r, id) == {w \in 1..Len(run[r].writes) : run[r].writes[w].id = id}

\* C16: in the update loop every ticket with a result gets exactly one
\* update attempt, in the order of the results; a failed update does not
\* stop the loop; at its end the succeeded and the failed updates add up to
\* the number of tickets with a result.
C16_OneUpdateAttemptEach ==
    run[1].pc \in {"persist", "done"} =>
        /\ Len(run[1].writes) = run[1].k - 1
        /\ \A w \in 1..Len(run[1].writes) :
              run[1].writes[w].id = run[1].all_results[w].id
        /\ \A id \in ResolvedTickets(1) : Cardinality(WritesFor(1, id)) <= 1
        /\ run[1].db_update_success_count =
              Cardinality({w \in 1..Len(run[1].writes) : run[1].writes[w].ok})
        /\ run[1].db_update_error_count =
              Cardinality({w \in 1..Len(run[1].writes) : ~run[1].writes[w].ok})
        /\ run[1].pc = "persist" => ENABLED Persist
        /\ run[1].pc = "done" =>
              /\ \A id \in ResolvedTickets(1) : Cardinality(WritesFor(1, id)) = 1
              /\ run[1].db_update_success_count + run[1].db_update_error_count
                    = Cardinality(ResolvedTickets(1))

\* A finished run whose first update failed and whose later updates went
\* through.
C16_Witness ==
    /\ run[1].pc = "done"
    /\ Len(run[1].writes) > BATCH_SIZE
    /\ ~run[1].writes[1].ok
    /\ run[1].writes[Len(run[1].writes)].ok
    /\ run[1].db_update_error_count = 1
    /\ run[1].db_update_success_count = Len(run[1].writes) - 1

\* The tickets of the batches of run r whose round trip succeeded: a response
\* came back with one label line per ticket and no error text.
RoundTripTickets(r) ==
    UNION {{BatchOf(run[r], b)[j] : j \in 1..Len(BatchOf(run[r], b))} :
              b \in {c \in 1..Len(run[r].outcome) : WellFormed(r, c)}}

\* The updates of ticket id that went through in run r.
WrittenFor(r, id) == {w \in WritesFor(r, id) : run[r].writes[w].ok}

\* C17: within one run a ticket's category is written at most once, and
\* only for a ticket of a batch whose round trip succeeded; a ticket of a
\* failed batch, or whose update failed, keeps the category it had when the
\* run started (for a fetched ticket: "Pending", NULL or empty).
C17_WrittenOnceOnSuccessOnly ==
    run[1].pc # "idle" =>
        /\ LET round_trip == RoundTripTickets(1)
           IN  /\ \A w \in 1..Len(run[1].writes) : run[1].writes[w].id \in round_trip
               /\ \A t \in 1..Len(store) :
                     /\ Cardinality(WritesFor(1, t)) <= 1
                     /\ WrittenFor(1, t) = {} => store[t] = run[1].store0[t]
                     /\ t \notin round_trip => store[t] = run[1].store0[t]
        /\ \A x \in 1..Len(run[1].pending_df) :
              WrittenFor(1, run[1].pending_df[x]) = {} =>
                  IsPending(store[run[1].pending_df[x]])

\* A finished run with a ticket of a failed batch, a ticket whose update
\* failed and a ticket that was written, the first two still pending.
C17_Witness ==
    /\ run[1].pc = "done"
    /\ Len(run[1].outcome) = 2
    /\ ~run[1].outcome[1].ok
    /\ WellFormed(1, 2)
    /\ Len(run[1].writes) >= 2
    /\ ~run[1].writes[1].ok
    /\ run[1].writes[2].ok
    /\ IsPending(store[run[1].writes[1].id])
    /\ IsPending(store[BatchOf(run[1], 1)[1]])
    /\ ~IsPending(store[run[1].writes[2].id])

\* C18: every category the run writes is one of the nine labels: never the
\* pending marker, never an error string, never a response line as it came.
\* A store row is either as the run found it or holds a label.
C18_WrittenCategoryIsALabel ==
    run[1].pc # "idle" =>
        /\ \A w \in 1..Len(run[1].writes) :
              /\ InList(run[1].writes[w].cat, target_categories)
              /\ ~IsPending(run[1].writes[w].cat)
              /\ ~Contains(run[1].writes[w].cat, ErrorMarker)
              /\ run[1].writes[w].ok =>
                    InList(store[run[1].writes[w].id], target_categories)
        /\ \A t \in 1..Len(store) :
              store[t] = run[1].store0[t] \/ InList(store[t], target_categories)

\* A finished run that wrote labels for response lines that were not labels
\* ("2. Other", "phishing attack", "Malware Infection found").
C18_Witness ==
    /\ run[1].pc = "done"
    /\ run[1].outcome[1].ok
    /\ run[1].outcome[1].mismatched > 0
    /\ Len(run[1].writes) >= Len(TestLines)
    /\ \A w \in 1..Len(run[1].writes) : run[1].writes[w].ok
    /\ \E w \in 1..Len(run[1].writes) : run[1].writes[w].cat = Other
    /\ \E w \in 1..Len(run[1].writes) : run[1].writes[w].cat = MalwareInfection

(***************************************************************************)
(* The end of a run                                                        *)
(***************************************************************************)
\* Run r fetched at least one ticket and its loop over the batches came to
\* its end, the endpoint having answered for every batch.
FinishedBatches(r) ==
    /\ run[r].pending_df # << >>
    /\ Len(run[r].outcome) = num_batches(run[r])
    /\ \A b \in 1..Len(run[r].outcome) : run[r].outcome[b].kind = "returned"

\* C19: a run that fetched at least one ticket and finished its batches goes
\* through the update loop to its end, where the summary is logged, however
\* many of its batches failed: it never ends before the summary.
C19_FinishedRunReachesDone ==
    FinishedBatches(1) =>
        /\ run[1].pc \in {"persist", "done"}
        /\ Terminal(1) => run[1].pc = "done"

(***************************************************************************)
(* Batching                                                                *)
(***************************************************************************)
\* The first b batches of a run, one after the other.
RECURSIVE ConcatBatches(_, _)
ConcatBatches(rec, b) ==
    IF b <= 0 THEN << >> ELSE ConcatBatches(rec, b - 1) \o BatchOf(rec, b)

\* The batches of a run, in order.
Batches(rec) == [b \in 1..num_batches(rec) |-> BatchOf(rec, b)]

\* The tickets of a list of ids.
IdsOf(ids) == {ids[j] : j \in 1..Len(ids)}

\* C20: the n fetched tickets are cut into ceil(n / 10) batches, contiguous
\* and in fetch order: every batch but the last holds 10 tickets, the last
\* holds 1 to 10, every fetched ticket stands in exactly one batch, the
\* batches put one after the other give the fetched list, and the loop
\* takes them in that order.
C20_BatchingPartitions ==
    LET rec == run[1]
        n == Len(rec.pending_df)
        nb == num_batches(rec)
        batches == Batches(rec)
    IN  n > 0 =>
            /\ (nb - 1) * BATCH_SIZE < n
            /\ n <= nb * BATCH_SIZE
            /\ \A b \in 1..(nb - 1) : Len(batches[b]) = BATCH_SIZE
            /\ Len(batches[nb]) \in 1..BATCH_SIZE
            /\ ConcatBatches(rec, nb) = rec.pending_df
            /\ \A b \in 1..nb : Cardinality(IdsOf(batches[b])) = Len(batches[b])
            /\ \A b \in 1..nb : \A c \in 1..nb :
                  b # c => IdsOf(batches[b]) \cap IdsOf(batches[c]) = {}
            /\ UNION {IdsOf(batches[b]) : b \in 1..nb} = IdsOf(rec.pending_df)
            /\ rec.pc = "batch" =>
                  /\ rec.i < nb
                  /\ Len(rec.outcome) = rec.i
                  /\ batch_ticket_ids(rec) = BatchOf(rec, rec.i + 1)
            /\ rec.pc = "sleep" => (rec.i < nb - 1 /\ Len(rec.outcome) = rec.i + 1)

\* A run at its second batch, the first one full and the second one not, the
\* tickets fetched in descending id order.
C20_Witness ==
    /\ run[1].pc = "batch"
    /\ run[1].i = 1
    /\ Len(BatchOf(run[1], 1)) = BATCH_SIZE
    /\ Len(batch_ticket_ids(run[1])) < BATCH_SIZE
    /\ run[1].pending_df[1] > run[1].pending_df[2]

(***************************************************************************)
(* Count mismatch and retries                                              *)
(***************************************************************************)
\* The step of run r records, for its current batch, a response whose number
\* of label lines differs from the number of tickets.
MismatchRecorded(r) ==
    /\ Len(run'[r].outcome) = Len(run[r].outcome) + 1
    /\ run'[r].outcome[Len(run'[r].outcome)].kind = "returned"
    /\ run'[r].outcome[Len(run'[r].outcome)].resp.m # Len(batch_ticket_ids(run[r]))

\* C21 as stated: a batch whose response has the wrong number of non-empty
\* lines had its endpoint called exactly once (the call that gave that
\* response) and is failed.
C21_MismatchCalledOnce ==
    [][MismatchRecorded(1) =>
          /\ run[1].calls = 0
          /\ run'[1].failed_api_batches = run[1].failed_api_batches + 1]_vars

\* C21 amended: the response with the wrong number of lines is the last
\* endpoint call for its batch and the batch is failed; every earlier call
\* for the batch raised, so the endpoint was called once when none raised. A
\* batch still open has had no response at all.
C21_MismatchNotRetried ==
    /\ [](run[1].pc = "batch" =>
            /\ run[1].calls = run[1].outer * stop_after_attempt + run[1].inner
            /\ Len(run[1].outcome) = run[1].i)
    /\ [][MismatchRecorded(1) =>
            /\ run[1].pc = "batch"
            /\ run[1].calls = run[1].outer * stop_after_attempt + run[1].inner
            /\ run'[1].pc \in {"sleep", "noresults", "persist"}
            /\ run'[1].i = run[1].i
            /\ run'[1].calls = 0
            /\ run'[1].failed_api_batches = run[1].failed_api_batches + 1
            /\ run'[1].all_results = run[1].all_results]_vars

\* A run whose two batches were each closed by a response of the wrong
\* number of lines.
C21_Witness ==
    /\ Len(run[1].outcome) = 2
    /\ CountMismatch(1, 1)
    /\ CountMismatch(1, 2)
    /\ run[1].failed_api_batches = 2
    /\ run[1].pc = "noresults"

(***************************************************************************)
(* Order of the steps of a run                                             *)
(***************************************************************************)
\* The place of ticket id in the fetched frame.
PositionOf(rec, id) == CHOOSE x \in 1..Len(rec.pending_df) : rec.pending_df[x] = id

\* C22: the batches are taken one at a time in fetch order. The endpoint is
\* called for batch k+1 only when the outcomes of batches 1..k are recorded,
\* calls are made for the one open batch only, the index advances by one and
\* only through the inter-batch delay, and the delay is taken between every
\* two consecutive batches and not after the last one.
C22_SequentialBatches ==
    /\ [](LET rec == run[1]
              nb == num_batches(rec)
          IN  rec.pending_df # << >> =>
                /\ rec.pc = "batch" =>
                      (Len(rec.outcome) = rec.i /\ rec.sleeps = rec.i /\ rec.i < nb)
                /\ rec.pc = "sleep" =>
                      (Len(rec.outcome) = rec.i + 1 /\ rec.sleeps = rec.i /\ rec.i < nb - 1)
                /\ rec.pc = "crashed" =>
                      (Len(rec.outcome) = rec.i + 1 /\ rec.sleeps = rec.i)
                /\ rec.pc \in {"persist", "noresults", "done"} =>
                      (Len(rec.outcome) = nb /\ rec.sleeps = nb - 1 /\ rec.i = nb - 1)
                /\ rec.calls > 0 => rec.pc \in {"batch", "crashed"}
                /\ \A x \in 1..(Len(rec.all_results) - 1) :
                      PositionOf(rec, rec.all_results[x].id)
                          < PositionOf(rec, rec.all_results[x + 1].id))
    /\ [][/\ run'[1].calls > run[1].calls =>
                (run[1].pc = "batch" /\ Len(run[1].outcome) = run[1].i)
          /\ Len(run'[1].outcome) > Len(run[1].outcome) =>
                (run[1].pc = "batch" /\ Len(run'[1].outcome) = run[1].i + 1)
          /\ (run[1].pc # "idle" /\ run'[1].i # run[1].i) =>
                /\ run[1].pc = "sleep"
                /\ run'[1].i = run[1].i + 1
                /\ run'[1].sleeps = run[1].sleeps + 1]_vars

\* A run that took its one delay between its two batches and none after
\* the second.
C22_Witness ==
    /\ run[1].pc = "persist"
    /\ num_batches(run[1]) = 2
    /\ Len(run[1].outcome) = 2
    /\ run[1].sleeps = 1
    /\ run[1].outcome[1].ok
    /\ run[1].outcome[2].ok

\* C23: the run goes from its batches to the update loop and then to its
\* end: no update is issued before every batch of the run has been
\* attempted, and no endpoint call is made once an update was issued.
C23_BatchesThenUpdates ==
    /\ [](run[1].writes # << >> =>
            /\ run[1].pc \in {"persist", "done"}
            /\ Len(run[1].outcome) = num_batches(run[1])
            /\ run[1].calls = 0
            /\ ~ ENABLED (CallReturns \/ CallRaises \/ Unconfigured))
    /\ [](run[1].pc = "persist" => Len(run[1].outcome) = num_batches(run[1]))
    /\ [][/\ run'[1].writes # run[1].writes =>
                /\ run[1].pc = "persist"
                /\ Len(run[1].outcome) = num_batches(run[1])
                /\ run'[1].outcome = run[1].outcome
                /\ run'[1].pc \in {"persist", "done"}
          /\ (run'[1].calls # run[1].calls \/ run'[1].outcome # run[1].outcome) =>
                (run[1].writes = << >> /\ run'[1].writes = << >> /\ store' = store)
          /\ store' # store => run'[1].writes # run[1].writes]_vars

\* A run in its update loop after two batches, the first update issued.
C23_Witness ==
    /\ run[1].pc = "persist"
    /\ Len(run[1].writes) = 1
    /\ num_batches(run[1]) = 2
    /\ Len(run[1].outcome) = 2
    /\ run[1].outcome[1].ok
    /\ ~run[1].outcome[2].ok

(***************************************************************************)
(* Diagnostic counts                                                       *)
(***************************************************************************)
\* The test lines that, once cleaned, are not a label as they stand.
NotExactTestLines ==
    {x \in 1..Len(TestLines) :
        ~InList(simple_cleaned_cat_text(TestLines[x]), target_categories)}

\* The test lines that, once cleaned, neither are nor contain a label.
UnmatchedTestLines ==
    {x \in 1..Len(TestLines) : MismatchedName(TestLines[x], target_categories) = 1}

\* The index in TestLines of the j-th line of a response rotated by s.
LineIndex(j, s) == ((j - 1 + s) % Len(TestLines)) + 1

\* C24: for each successful batch the count the normalizer reports equals
\* the number of the batch's lines that were not an exact label, whether a
\* contained label was found for them or "Other" was assigned.
C24_FallbackCountIsNotExactLines ==
    \A b \in 1..Len(run[1].outcome) :
        run[1].outcome[b].ok =>
            run[1].outcome[b].mismatched =
                Cardinality({j \in 1..Len(BatchOf(run[1], b)) :
                                LineIndex(j, run[1].outcome[b].resp.s) \in NotExactTestLines})

\* The places of the fetched frame whose ticket is in a successful batch of
\* run r and whose response line matched no label, exactly or by substring.
SentinelFallbacks(r) ==
    {x \in 1..Len(run[r].pending_df) :
        LET b == ((x - 1) \div BATCH_SIZE) + 1
            j == ((x - 1) % BATCH_SIZE) + 1
        IN  /\ b <= Len(run[r].outcome)
            /\ run[r].outcome[b].ok
            /\ LineIndex(j, run[r].outcome[b].resp.s) \in UnmatchedTestLines}

\* C25: the count of tickets mapped to "Other" in the summary of a run equals
\* the number of tickets of its successful batches whose response line
\* matched no label and was normalized to "Other".
C25_SummaryCountsSentinelFallbacks ==
    run[1].pc = "done" =>
        run[1].mapped_to_other_count = Cardinality(SentinelFallbacks(1))

(***************************************************************************)
(* The substring scan of the normalizer                                    *)
(***************************************************************************)
\* The labels (by their place in the list) that occur in a cleaned line.
ContainedLabels(cleaned, categories) ==
    {c \in 1..Len(categories) : Contains(cleaned, categories[c])}

\* C26: when the cleaned line is not a label but contains labels, the result
\* is a contained label of the greatest length, the first one in list order
\* among those of that length; with "Other" and a longer label in the line
\* the result is the longer label.
C26_LongestContainedLabel ==
    norm.pc \in {"once", "twice"} =>
        LET cleaned == Strip(RegexStripPrefix(norm.line))
            contained == ContainedLabels(cleaned, target_categories)
        IN  (~InList(cleaned, target_categories) /\ contained # {}) =>
                /\ \E c \in contained :
                      /\ norm.out = target_categories[c]
                      /\ \A d \in contained :
                            /\ Len(target_categories[d]) <= Len(norm.out)
                            /\ Len(target_categories[d]) = Len(norm.out) => c <= d
                /\ (\E d \in contained : Len(target_categories[d]) > Len(Other)) =>
                      norm.out # Other

\* "Other Software Issue extra text" holds "Other" and "Software Issue" and
\* was given the longer one.
C26_Witness ==
    /\ norm.pc = "once"
    /\ norm.line = Other \o << " " >> \o SoftwareIssue
                       \o <<" ","e","x","t","r","a"," ","t","e","x","t">>
    /\ norm.out = SoftwareIssue

(***************************************************************************)
(* What a run leaves alone                                                 *)
(***************************************************************************)
\* C27: a run changes nothing in the table but the category of tickets it
\* fetched as pending: the rows and their ids stay, titles and descriptions
\* stay, and the category of a ticket outside the fetched frame stays.
C27_OnlyFetchedCategoriesChange ==
    /\ [](run[1].pc # "idle" =>
            /\ DOMAIN store = DOMAIN run[1].store0
            /\ DOMAIN texts = DOMAIN store
            /\ \A t \in DOMAIN store :
                  /\ texts[t] = InitialTexts(t)
                  /\ t \notin IdsOf(run[1].pending_df) => store[t] = run[1].store0[t])
    /\ [][/\ DOMAIN store' = DOMAIN store
          /\ texts' = texts
          /\ \A t \in DOMAIN store :
                store'[t] # store[t] =>
                    /\ t \in IdsOf(run[1].pending_df)
                    /\ IsPending(run[1].store0[t])]_vars

\* A finished run that labeled the tickets it fetched beside a ticket that
\* carried a label and was not fetched.
C27_Witness ==
    /\ run[1].pc = "done"
    /\ Len(store) >= 5
    /\ ~IsPending(run[1].store0[5])
    /\ 5 \notin IdsOf(run[1].pending_df)
    /\ store[5] = run[1].store0[5]
    /\ \E t \in DOMAIN store : store[t] # run[1].store0[t]
    /\ texts[1] = InitialTexts(1)

(***************************************************************************)
(* Termination                                                             *)
(***************************************************************************)
\* One run that keeps taking steps while it can: main() runs to its end.
SpecFair == Init /\ [][Next]_vars /\ WF_vars(Next)

\* C28: every run ends in one of the terminal states no-work, done or the
\* abort at start.
C28_RunReachesTerminalState ==
    <>(run[1].pc \in {"nowork", "done", "aborted"})

(***************************************************************************)
(* Detection of a failed call by its text                                  *)
(***************************************************************************)
\* The step of run r records a response of the endpoint for its current
\* batch.
ResponseRecorded(r) ==
    /\ Len(run'[r].outcome) = Len(run[r].outcome) + 1
    /\ run'[r].outcome[Len(run'[r].outcome)].kind = "returned"

\* C29: a response holding "Error:" anywhere fails its whole batch, none of
\* its tickets gets a result, an update or a category, even with one line per
\* ticket; a response without "Error:" is not taken for a failed call: it
\* fails its batch only by its number of lines.
C29_ErrorTextFailsBatch ==
    /\ [][ResponseRecorded(1) =>
            LET b == Len(run'[1].outcome)
                d == run'[1].outcome[b].resp
                ids == batch_ticket_ids(run[1])
            IN  IF Contains(ResponseText(d), ErrorMarker)
                THEN /\ ~run'[1].outcome[b].ok
                     /\ run'[1].all_results = run[1].all_results
                     /\ run'[1].failed_api_batches = run[1].failed_api_batches + 1
                ELSE run'[1].outcome[b].ok <=> d.m = Len(ids)]_vars
    /\ [](\A b \in 1..Len(run[1].outcome) :
            ~run[1].outcome[b].ok =>
                LET ids == BatchOf(run[1], b)
                IN  \A j \in 1..Len(ids) :
                        /\ ResultsFor(run[1], ids[j]) = {}
                        /\ WritesFor(1, ids[j]) = {}
                        /\ store[ids[j]] = run[1].store0[ids[j]])

\* A finished run whose first batch got one line per ticket and "Error:" in
\* the last of them, and whose second batch was labeled.
C29_Witness ==
    /\ run[1].pc = "done"
    /\ Len(run[1].outcome) = 2
    /\ run[1].outcome[1].kind = "returned"
    /\ run[1].outcome[1].resp.style = "error"
    /\ run[1].outcome[1].resp.m = Len(BatchOf(run[1], 1))
    /\ ~run[1].outcome[1].ok
    /\ run[1].outcome[2].ok
    /\ run[1].outcome[2].resp.style = "plain"

(***************************************************************************)
(* Two runs at the same time (SpecInterleaved)                             *)
(***************************************************************************)
InitInterleaved ==
    /\ store = [t \in 1..2 |-> InitialCategory(t, FALSE)]
    /\ texts = [t \in 1..Len(store) |-> InitialTexts(t)]
    /\ engine = "ok"
    /\ client = "ok"
    /\ run = [r \in Runs |-> IdleRun]
    /\ norm = NormOff

\* The responses of the interleaved runs: one line per ticket, rotated so
\* that two runs may get different labels for one ticket.
InterleavedResponses(n) == [style : {"plain"}, m : {n}, s : 0..MaxShift]

\* Either run starts, calls the endpoint or issues its next update at any
\* time: the two processes share nothing but the table.
InterleavedStart == \E r \in Runs, order \in FetchOrders : Start(r, TRUE, order)
InterleavedCallReturns ==
    \E r \in Runs :
        \E d \in InterleavedResponses(Len(batch_ticket_ids(run[r]))) : AttemptReturns(r, d)
InterleavedPersist == \E r \in Runs : UpdateTicket(r, TRUE)

NextInterleaved ==
    \/ InterleavedStart
    \/ InterleavedCallReturns
    \/ InterleavedPersist

SpecInterleaved == InitInterleaved /\ [][NextInterleaved]_vars

\* The step is an update issued by run r.
UpdateIssued(r) == Len(run'[r].writes) = Len(run[r].writes) + 1

\* C30: an update is applied whatever the category the ticket has at that
\* moment. When two runs fetched the same pending ticket, each of their
\* updates sets the category, one that is already a label included, so the
\* category is the one written last; no other row changes.
C30_LastWriterWins ==
    /\ [][\A r \in Runs :
            UpdateIssued(r) =>
                LET w == run'[r].writes[Len(run'[r].writes)]
                IN  /\ w.ok => store'[w.id] = w.cat
                    /\ \A t \in DOMAIN store : t # w.id => store'[t] = store[t]]_vars
    /\ [](\A t \in DOMAIN store :
            \/ store[t] = InitialCategory(t, FALSE)
            \/ \E r \in Runs : \E w \in WrittenFor(r, t) : store[t] = run[r].writes[w].cat)

\* Both runs fetched ticket 1 and wrote different labels for it; run 1 wrote
\* "Data Leak" first and the category is now the "Other" of run 2.
C30_Witness ==
    /\ run[1].pc = "done"
    /\ run[2].pc = "done"
    /\ \E v \in WrittenFor(1, 1) : run[1].writes[v].cat = DataLeak
    /\ \E w \in WrittenFor(2, 1) : run[2].writes[w].cat = Other
    /\ store[1] = Other
====
